---- MODULE Spec2Model ----
(***************************************************************************)
(* LexLearner: the OpenStates bill search client (search_bill_openstates  *)
(* and its interactive read loop) and the static version-1 catalog        *)
(* (search_bill).  Python strings that the code inspects character by     *)
(* character (keywords, prompts) are sequences of one-character strings;  *)
(* strings it only passes on or concatenates are TLA+ strings.            *)
(***************************************************************************)
EXTENDS Naturals, Sequences, FiniteSets, TLC

\* Bounds of the model.
MaxResults == 3
MaxLimit == 2
MaxActions == 2
MaxSubjects == 3
MaxFrags == 3

VARIABLES
    pc,                 \* position of the program
    keyword,            \* search_bill_openstates: argument
    jurisdiction,       \* search_bill_openstates: argument
    limit,              \* search_bill_openstates: argument
    response,           \* local of search_bill_openstates (line 47)
    data,               \* local of search_bill_openstates (line 49)
    bills_found,        \* local of search_bill_openstates (line 51)
    i,                  \* loop index of enumerate(bills_found) (line 59)
    detail_resp,        \* local of search_bill_openstates (line 66)
    formatted_results,  \* local of search_bill_openstates (line 43)
    exc,                \* the exception in flight, "none" when there is none
    ret,                \* the list search_bill_openstates returned
    stdout,             \* the lines printed since the last call
    requests,           \* the GET requests issued since the last call
    search_reply,       \* what the server answered to the search request
    detail_replies,     \* what the server answered to each detail request
    keyword_input,      \* read loop: the keyword read (line 131)
    jurisdiction_input, \* read loop: the jurisdiction read (line 138)
    results             \* the caller's `results`

vars == <<pc, keyword, jurisdiction, limit, response, data, bills_found, i,
          detail_resp, formatted_results, exc, ret, stdout, requests,
          search_reply, detail_replies, keyword_input, jurisdiction_input,
          results>>

-----------------------------------------------------------------------------
(* Python and JSON values.                                                 *)

\* A scalar slot of a JSON object or of an output record: the key is absent,
\* or holds null (None), a string, or an array.
Absent == [t |-> "absent", s |-> ""]
JNull == [t |-> "null", s |-> ""]
JStr(x) == [t |-> "str", s |-> x]
JArr == [t |-> "list", s |-> ""]

\* A list-valued slot of a JSON object: absent, null, or an array of objects.
LAbsent == [t |-> "absent", items |-> <<>>]
LNull == [t |-> "null", items |-> <<>>]
LList(q) == [t |-> "list", items |-> q]

\* dict.get(key, default): the default only when the key is absent.
Get(slot, default) == IF slot.t = "absent" THEN default ELSE slot

\* Python truthiness of a slot's value: None, "" and [] are falsy.
Truthy(v) ==
    CASE v.t = "str" -> v.s # ""
      [] v.t = "list" -> TRUE
      [] OTHER -> FALSE

ListTruthy(v) == v.t = "list" /\ v.items # <<>>

\* Sequences of length at most n over S.
SeqUpTo(S, n) == UNION {[1..k -> S] : k \in 0..n}

\* A local variable: unbound until assigned.
UnboundResponse == [bound |-> FALSE, status_code |-> 0]
BoundResponse(code) == [bound |-> TRUE, status_code |-> code]

NoBody == [kind |-> "none"]
UnboundData == [bound |-> FALSE, body |-> NoBody]
BoundData(b) == [bound |-> TRUE, body |-> b]

\* print(...): one printed line, with the status code it shows (0: none).
Line(msg) == [msg |-> msg, code |-> 0]
LineCode(msg, code) == [msg |-> msg, code |-> code]

-----------------------------------------------------------------------------
(* Characters.                                                              *)

UpperChars ==
    <<"A", "C", "D", "E", "G", "H", "I", "L", "M", "N", "O", "R", "T", "U",
      "X", "Y">>
LowerChars ==
    <<"a", "c", "d", "e", "g", "h", "i", "l", "m", "n", "o", "r", "t", "u",
      "x", "y">>

\* str.lower() and its inverse on letters, one character at a time.
LowerChar(c) ==
    IF \E k \in 1..Len(UpperChars) : UpperChars[k] = c
    THEN LowerChars[CHOOSE k \in 1..Len(UpperChars) : UpperChars[k] = c]
    ELSE c

UpperChar(c) ==
    IF \E k \in 1..Len(LowerChars) : LowerChars[k] = c
    THEN UpperChars[CHOOSE k \in 1..Len(LowerChars) : LowerChars[k] = c]
    ELSE c

Lower(str) == [k \in 1..Len(str) |-> LowerChar(str[k])]

\* `needle in haystack` on strings.
Contains(haystack, needle) ==
    \E k \in 0..Len(haystack) :
        /\ k + Len(needle) <= Len(haystack)
        /\ \A j \in 1..Len(needle) : haystack[k + j] = needle[j]

\* str.strip(): leading and trailing white space removed.
RECURSIVE LStrip(_)
LStrip(str) ==
    IF str # <<>> /\ Head(str) = " " THEN LStrip(Tail(str)) ELSE str

RECURSIVE RStrip(_)
RStrip(str) ==
    IF str # <<>> /\ str[Len(str)] = " "
    THEN RStrip(SubSeq(str, 1, Len(str) - 1))
    ELSE str

Strip(str) == RStrip(LStrip(str))

-----------------------------------------------------------------------------
(* The requests library: its exception classes and raise_for_status.      *)

\* The direct base classes of each exception class.
Bases(cls) ==
    CASE cls = "HTTPError" -> {"RequestException"}
      [] cls = "ConnectionError" -> {"RequestException"}
      [] cls = "Timeout" -> {"RequestException"}
      [] cls = "ConnectTimeout" -> {"ConnectionError", "Timeout"}
      [] cls = "ReadTimeout" -> {"Timeout"}
      [] cls = "TooManyRedirects" -> {"RequestException"}
      [] cls = "JSONDecodeError" -> {"RequestException", "ValueError"}
      [] cls = "ValueError" -> {"Exception"}
      [] cls = "RequestException" -> {"Exception"}
      [] cls = "KeyError" -> {"Exception"}
      [] cls = "TypeError" -> {"Exception"}
      [] cls = "AttributeError" -> {"Exception"}
      [] cls = "UnboundLocalError" -> {"Exception"}
      [] OTHER -> {}

RECURSIVE IsSubclass(_, _)
IsSubclass(cls, base) ==
    cls = base \/ \E b \in Bases(cls) : IsSubclass(b, base)

\* Response.json() on a body that is no JSON raises the library's
\* JSONDecodeError, or a plain ValueError with releases before 2.27.
JsonErrors == {"JSONDecodeError", "ValueError"}

\* Response.raise_for_status(): HTTPError for 4xx and 5xx.
IsErrorStatus(code) == 400 <= code /\ code < 600

-----------------------------------------------------------------------------
(* search_bill_openstates.                                                  *)

\* The except clauses without the catch-all `except Exception`.
ExceptClausesNoCatchAll ==
    <<"HTTPError", "ConnectionError", "Timeout", "RequestException",
      "KeyError">>

\* The except clauses of the try statement, in source order.
ExceptClauses ==
    <<"HTTPError", "ConnectionError", "Timeout", "RequestException",
      "KeyError", "Exception">>

\* The clause that catches e: the first one naming a class of e; 0 when none.
Handler(e) ==
    IF \E k \in 1..Len(ExceptClauses) : IsSubclass(e, ExceptClauses[k])
    THEN CHOOSE k \in 1..Len(ExceptClauses) :
            /\ IsSubclass(e, ExceptClauses[k])
            /\ \A j \in 1..(k - 1) : ~IsSubclass(e, ExceptClauses[j])
    ELSE 0

\* ", ".join(names)
RECURSIVE Join(_, _)
Join(sep, names) ==
    IF names = <<>> THEN ""
    ELSE IF Len(names) = 1 THEN names[1]
    ELSE names[1] \o sep \o Join(sep, Tail(names))

\* actions[0] in place of actions[-1].
FirstActionText(actions) ==
    Get(actions[1].description, JStr("No description."))

\* Line 79: the description of the last action, or its default.
LatestActionText(actions) ==
    Get(actions[Len(actions)].description, JStr("No description."))

\* Lines 75-79: latest_action_text.
StatusOf(detail_data) ==
    LET actions == Get(detail_data.actions, LList(<<>>))
    IN  IF ListTruthy(actions)
        THEN LatestActionText(actions.items)
        ELSE JStr("No recent action found.")

\* The list comprehension without its `if s.get("name")`.
SubjectNamesUnfiltered(items) ==
    [k \in 1..Len(items) |-> Get(items[k].name, JStr("")).s]

\* Line 82: the list comprehension over the subjects.
RECURSIVE SubjectNames(_)
SubjectNames(items) ==
    IF items = <<>> THEN <<>>
    ELSE IF Truthy(items[1].name)
         THEN <<Get(items[1].name, JStr("")).s>> \o SubjectNames(Tail(items))
         ELSE SubjectNames(Tail(items))

\* Line 94: the subjects field.
SubjectsField(subjects) ==
    IF subjects # <<>> THEN JStr(Join(", ", subjects)) ELSE JStr("N/A")

\* Lines 68-82: what mapping a parsed detail body raises ("none": nothing).
FormatRaises(detail_data) ==
    IF detail_data.kind # "dict" THEN "AttributeError"
    ELSE IF Get(detail_data.subjects, LList(<<>>)).t # "list" THEN "TypeError"
    ELSE "none"

\* Lines 71-98: the record appended for a detail body that maps.
FormatBill(detail_data) ==
    [identifier |-> Get(detail_data.identifier, JStr("N/A")),
     title |-> Get(detail_data.title, JStr("N/A")),
     status |-> StatusOf(detail_data),
     subjects |->
        SubjectsField(SubjectNames(Get(detail_data.subjects, LList(<<>>)).items)),
     abstract |-> Get(detail_data.abstract, JStr("No abstract available.")),
     openstates_url |-> Get(detail_data.openstates_url, JStr("No URL available.")),
     classification |-> Get(detail_data.classification, JStr("N/A"))]

\* What a GET and the two calls after it (raise_for_status, json) raise.
FetchRaises(r, je) ==
    IF r.exc # "none" THEN r.exc
    ELSE IF IsErrorStatus(r.status_code) THEN "HTTPError"
    ELSE IF r.body.kind = "invalid" THEN je
    ELSE "none"

\* Whether the GET returned a response object at all.
Responded(r) == r.exc = "none"

\* Lines 27-43: the entry of the function.
Call ==
    /\ pc = "call"
    /\ pc' = "search"
    /\ stdout' = Append(stdout, Line("Searching for bills"))
    /\ formatted_results' = <<>>
    /\ response' = UnboundResponse
    /\ detail_resp' = UnboundResponse
    /\ data' = UnboundData
    /\ bills_found' = LList(<<>>)
    /\ i' = 0
    /\ exc' = "none"
    /\ ret' = <<>>
    /\ requests' = <<>>
    /\ search_reply' = <<>>
    /\ detail_replies' = <<>>
    /\ UNCHANGED <<keyword, jurisdiction, limit, keyword_input,
                   jurisdiction_input, results>>

\* Line 47: the search request.
SearchUrl ==
    [path |-> "/bills", bill_id |-> "", q |-> keyword,
     jurisdiction |-> Lower(jurisdiction), per_page |-> limit]

\* Line 64: the detail request.
DetailUrl(bill_id) ==
    [path |-> "/bills/{id}", bill_id |-> bill_id, q |-> <<>>,
     jurisdiction |-> <<>>, per_page |-> 0]

\* The parse with data["results"] in place of data.get("results", []).
SearchParseSubscript(r, je) ==
    IF FetchRaises(r, je) # "none"
    THEN [raised |-> FetchRaises(r, je), found |-> LList(<<>>)]
    ELSE IF r.body.kind # "dict"
    THEN [raised |-> "TypeError", found |-> LList(<<>>)]
    ELSE IF r.body.results.t = "absent"
    THEN [raised |-> "KeyError", found |-> LList(<<>>)]
    ELSE [raised |-> "none", found |-> r.body.results]

\* Lines 47-51: what the search request, raise_for_status, json() and
\* data.get("results", []) raise, and the bills found when they raise nothing.
SearchParse(r, je) ==
    IF FetchRaises(r, je) # "none"
    THEN [raised |-> FetchRaises(r, je), found |-> LList(<<>>)]
    ELSE IF r.body.kind # "dict"
    THEN [raised |-> "AttributeError", found |-> LList(<<>>)]
    ELSE [raised |-> "none", found |-> Get(r.body.results, LList(<<>>))]

\* Lines 47-55: the search request, the parse and the empty-result return.
SearchRequest(replies) ==
    /\ pc = "search"
    /\ \E r \in replies, je \in JsonErrors :
        LET raised == SearchParse(r, je).raised
            found ==
                IF raised = "none" THEN SearchParse(r, je).found
                ELSE bills_found
        IN  /\ requests' = Append(requests, SearchUrl)
            /\ search_reply' = <<r>>
            /\ response' =
                IF Responded(r) THEN BoundResponse(r.status_code) ELSE response
            /\ data' =
                IF FetchRaises(r, je) = "none" THEN BoundData(r.body)
                ELSE data
            /\ bills_found' = found
            /\ exc' = raised
            /\ IF raised # "none"
               THEN /\ pc' = "except"
                    /\ UNCHANGED <<stdout, ret>>
               ELSE IF ~ListTruthy(found)
               THEN /\ pc' = "returned"
                    /\ stdout' = Append(stdout, Line("No initial bills found"))
                    /\ ret' = <<>>
               ELSE /\ pc' = "loop"
                    /\ UNCHANGED <<stdout, ret>>
    /\ UNCHANGED <<keyword, jurisdiction, limit, i, detail_resp,
                   formatted_results, detail_replies, keyword_input,
                   jurisdiction_input, results>>

\* formatted_results.insert(0, record) in place of append.
PrependResult(list, record) == <<record>> \o list

\* Line 90: formatted_results.append(record).
AppendResult(list, record) == Append(list, record)

\* The loop without the `if i >= limit: break` of lines 60-61.
LoopContinuesNoLimit == i < Len(bills_found.items)

\* Line 60: the loop goes on to entry i (0-based).
LoopContinues ==
    i < Len(bills_found.items) /\ i < limit

\* Lines 59-98: one iteration of the detail loop.
DetailFetch(replies) ==
    /\ pc = "loop"
    /\ LoopContinues
    /\ LET bill == bills_found.items[i + 1]
       IN  IF bill.id.t = "absent"
           THEN /\ exc' = "KeyError"
                /\ pc' = "except"
                /\ UNCHANGED <<requests, detail_replies, detail_resp,
                               formatted_results, i>>
           ELSE \E r \in replies, je \in JsonErrors :
                LET raised ==
                        IF FetchRaises(r, je) # "none" THEN FetchRaises(r, je)
                        ELSE FormatRaises(r.body)
                IN  /\ requests' = Append(requests, DetailUrl(bill.id.s))
                    /\ detail_replies' = Append(detail_replies, r)
                    /\ detail_resp' =
                        IF Responded(r) THEN BoundResponse(r.status_code)
                        ELSE detail_resp
                    /\ exc' = raised
                    /\ IF raised # "none"
                       THEN /\ pc' = "except"
                            /\ UNCHANGED <<formatted_results, i>>
                       ELSE /\ pc' = "loop"
                            /\ formatted_results' =
                                AppendResult(formatted_results,
                                             FormatBill(r.body))
                            /\ i' = i + 1
    /\ UNCHANGED <<keyword, jurisdiction, limit, response, data, bills_found,
                   ret, stdout, search_reply, keyword_input,
                   jurisdiction_input, results>>

\* Lines 59-61 and 99: the loop ends and the function returns its list.
Return ==
    /\ pc = "loop"
    /\ ~LoopContinues
    /\ pc' = "returned"
    /\ ret' = formatted_results
    /\ UNCHANGED <<keyword, jurisdiction, limit, response, data, bills_found,
                   i, detail_resp, formatted_results, exc, stdout, requests,
                   search_reply, detail_replies, keyword_input,
                   jurisdiction_input, results>>

\* Line 102: the response whose status code the HTTPError handler reads.
HandlerResponse == response

\* Lines 102-104: what the HTTPError handler prints.
HttpErrorLines(resp) ==
    <<LineCode("HTTP error occurred", resp.status_code)>> \o
    (IF resp.status_code = 401 \/ resp.status_code = 403
     THEN <<Line("Please check if your OpenStates API key is correct and valid.")>>
     ELSE <<>>)

\* Lines 101-123: what each handler prints.
HandlerLines(clause) ==
    CASE clause = "HTTPError" -> HttpErrorLines(HandlerResponse)
      [] clause = "ConnectionError" ->
            <<Line("Connection error occurred"),
              Line("Please check your internet connection.")>>
      [] clause = "Timeout" ->
            <<Line("Timeout error occurred"),
              Line("The API server took too long to respond.")>>
      [] clause = "RequestException" ->
            <<Line("An unexpected request error occurred")>>
      [] clause = "KeyError" ->
            <<Line("Error parsing API response. Missing expected key"),
              Line("Partial data for debugging")>>
      [] OTHER -> <<Line("An unknown error occurred")>>

\* The handler reads a local variable that was never assigned.
HandlerReadsUnbound(clause) ==
    \/ clause = "HTTPError" /\ ~HandlerResponse.bound
    \/ clause = "KeyError" /\ ~data.bound

\* A handler that returns the records built so far.
HandlerReturnPartial == formatted_results

\* Lines 105, 109, 113, 116, 120, 123: what a handler returns.
HandlerReturn == <<>>

\* Lines 101-123: the except clauses.
Except ==
    /\ pc = "except"
    /\ LET k == Handler(exc)
       IN  IF k = 0
           THEN /\ pc' = "raised"
                /\ UNCHANGED <<exc, ret, stdout>>
           ELSE IF HandlerReadsUnbound(ExceptClauses[k])
           THEN /\ pc' = "raised"
                /\ exc' = "UnboundLocalError"
                /\ UNCHANGED <<ret, stdout>>
           ELSE /\ pc' = "returned"
                /\ exc' = "none"
                /\ stdout' = stdout \o HandlerLines(ExceptClauses[k])
                /\ ret' = HandlerReturn
    /\ UNCHANGED <<keyword, jurisdiction, limit, response, data, bills_found,
                   i, detail_resp, formatted_results, requests, search_reply,
                   detail_replies, keyword_input, jurisdiction_input, results>>

-----------------------------------------------------------------------------
(* What the server may answer.                                             *)

TransportErrors ==
    {"ConnectionError", "ConnectTimeout", "ReadTimeout", "TooManyRedirects"}

ErrorStatuses == {401, 403, 404, 500}

Raises(e) == [exc |-> e, status_code |-> 0, body |-> NoBody]
Status(code) == [exc |-> "none", status_code |-> code, body |-> NoBody]
Ok(body) == [exc |-> "none", status_code |-> 200, body |-> body]

FailedReplies ==
    {Raises(e) : e \in TransportErrors} \cup {Status(c) : c \in ErrorStatuses}
    \cup {Ok([kind |-> "invalid"]), Ok([kind |-> "array"])}

\* The entries of a search response's results: with an id, or without.
ResultEntries ==
    {[id |-> JStr("ocd-bill/1")], [id |-> JStr("ocd-bill/2")], [id |-> Absent]}

SearchBody(res) == [kind |-> "dict", results |-> res]

SearchReplies ==
    FailedReplies
    \cup {Ok(SearchBody(LAbsent)), Ok(SearchBody(LNull))}
    \cup {Ok(SearchBody(LList(q))) : q \in SeqUpTo(ResultEntries, MaxResults)}

DetailBody(identifier, title, actions, subjects, abstract, url, classification) ==
    [kind |-> "dict", identifier |-> identifier, title |-> title,
     actions |-> actions, subjects |-> subjects, abstract |-> abstract,
     openstates_url |-> url, classification |-> classification]

Action(description) == [description |-> description]
Subject(name) == [name |-> name]

\* Detail bodies that tell the bills apart, for the flow of the search.
FlowBodies ==
    {DetailBody(JStr("HB 1"), JStr("Tax relief"),
                LList(<<Action(JStr("Introduced")), Action(JStr("Signed"))>>),
                LList(<<Subject(JStr("Tax"))>>),
                JStr("Cuts taxes. Adds oversight."),
                JStr("https://openstates.org/ga/bills/HB1"), JStr("bill")),
     DetailBody(JStr("SB 2"), Absent, LAbsent, LAbsent, Absent, Absent, Absent),
     DetailBody(JStr("HB 3"), JNull, LList(<<Action(Absent)>>),
                LList(<<Subject(JStr("")), Subject(JStr("Health"))>>),
                JNull, JNull, JArr),
     DetailBody(Absent, JStr("Health"), LList(<<>>), LNull, Absent, Absent, Absent)}

FlowReplies == FailedReplies \cup {Ok(b) : b \in FlowBodies}

-----------------------------------------------------------------------------
(* The search called once with any arguments.                              *)

Tax == <<"t", "a", "x">>

Init ==
    /\ pc = "call"
    /\ keyword = Tax
    /\ jurisdiction = <<"G", "A">>
    /\ limit \in 1..MaxLimit
    /\ response = UnboundResponse
    /\ detail_resp = UnboundResponse
    /\ data = UnboundData
    /\ bills_found = LList(<<>>)
    /\ i = 0
    /\ formatted_results = <<>>
    /\ exc = "none"
    /\ ret = <<>>
    /\ stdout = <<>>
    /\ requests = <<>>
    /\ search_reply = <<>>
    /\ detail_replies = <<>>
    /\ keyword_input = <<>>
    /\ jurisdiction_input = <<>>
    /\ results = <<>>

Next ==
    \/ Call
    \/ SearchRequest(SearchReplies)
    \/ DetailFetch(FlowReplies)
    \/ Return
    \/ Except

Spec == Init /\ [][Next]_vars

-----------------------------------------------------------------------------
(* The search called once on a single result, the detail body being any   *)
(* combination of actions and subjects.                                    *)

Descriptions == {Absent, JNull, JStr("Introduced"), JStr("Signed")}
Names == {Absent, JNull, JStr(""), JStr("Tax"), JStr("Health")}

ActionSlots ==
    {LAbsent, LNull}
    \cup {LList(q) : q \in SeqUpTo({Action(d) : d \in Descriptions}, MaxActions)}

SubjectSlots ==
    {LAbsent, LNull}
    \cup {LList(q) : q \in SeqUpTo({Subject(n) : n \in Names}, MaxSubjects)}

FieldBodies ==
    {DetailBody(JStr("HB 1"), JStr("Tax relief"), a, s, JStr("Cuts taxes."),
                JStr("https://openstates.org/x"), JStr("bill")) :
        a \in ActionSlots, s \in SubjectSlots}

FieldReplies == {Ok(b) : b \in FieldBodies}

OneResultReplies ==
    {Ok(SearchBody(LList(<<[id |-> JStr("ocd-bill/1")]>>)))}

NextFields ==
    \/ Call
    \/ SearchRequest(OneResultReplies)
    \/ DetailFetch(FieldReplies)
    \/ Return
    \/ Except

SpecFields == Init /\ [][NextFields]_vars

-----------------------------------------------------------------------------
(* The interactive read loop (lines 126-163).                              *)

\* Line 10: limit=20.
DefaultLimit == 20

Exit == <<"e", "x", "i", "t">>
Ga == <<"g", "a">>

\* Line 150: .replace() and line 154: .split() need strings.
Printable(bill) == bill.classification.t = "str" /\ bill.abstract.t = "str"

\* Lines 131-136: the keyword prompt.
ReadKeyword(lines) ==
    /\ pc = "prompt"
    /\ \E line \in lines :
        /\ keyword_input' = Strip(line)
        /\ IF Lower(Strip(line)) = Exit
           THEN /\ pc' = "exited"
                /\ stdout' = <<Line("Exiting LexLearner. Goodbye!")>>
           ELSE IF Strip(line) = <<>>
           THEN /\ pc' = "prompt"
                /\ stdout' = <<Line("Please enter a valid keyword.")>>
           ELSE /\ pc' = "jurisdiction"
                /\ stdout' = <<>>
    /\ UNCHANGED <<keyword, jurisdiction, limit, response, data, bills_found,
                   i, detail_resp, formatted_results, exc, ret, requests,
                   search_reply, detail_replies, jurisdiction_input, results>>

\* Lines 138-143: the jurisdiction prompt and the call of the search.
ReadJurisdiction(lines) ==
    /\ pc = "jurisdiction"
    /\ \E line \in lines :
        LET given == Lower(Strip(line))
            chosen == IF given = <<>> THEN Ga ELSE given
        IN  /\ jurisdiction_input' = chosen
            /\ jurisdiction' = chosen
    /\ keyword' = keyword_input
    /\ limit' = DefaultLimit
    /\ stdout' = Append(stdout, Line("--------------------------------------------------"))
    /\ pc' = "call"
    /\ UNCHANGED <<response, data, bills_found, i, detail_resp,
                   formatted_results, exc, ret, requests, search_reply,
                   detail_replies, keyword_input, results>>

\* Lines 143-161: the results are printed, or the no-bills message.
PrintResults ==
    /\ pc = "returned"
    /\ results' = ret
    /\ IF ret = <<>>
       THEN /\ pc' = "prompt"
            /\ stdout' = Append(stdout, Line("No bills found"))
       ELSE IF \A k \in 1..Len(ret) : Printable(ret[k])
       THEN /\ pc' = "prompt"
            /\ stdout' = Append(stdout, Line("--- Search Results ---"))
       ELSE /\ pc' = "crashed"
            /\ stdout' = Append(stdout, Line("--- Search Results ---"))
    /\ UNCHANGED <<keyword, jurisdiction, limit, response, data, bills_found,
                   i, detail_resp, formatted_results, exc, ret, requests,
                   search_reply, detail_replies, keyword_input,
                   jurisdiction_input>>

KeywordLines ==
    {Exit, <<"E", "X", "I", "T">>, <<" ", "E", "x", "i", "t", " ">>,
     <<>>, <<" ", " ">>, Tax, <<"e", "x", "i", "t", "s">>}

JurisdictionLines == {<<>>, <<" ", "N", "Y">>}

\* What the server answers during the read loop.
CliSearchReplies ==
    {Raises("ReadTimeout"), Status(500), Ok(SearchBody(LAbsent))}
    \cup {Ok(SearchBody(LList(q))) : q \in SeqUpTo(ResultEntries, 2)}

CliBodies ==
    {DetailBody(JStr("HB 1"), JStr("Tax relief"),
                LList(<<Action(JStr("Introduced"))>>),
                LList(<<Subject(JStr("Tax"))>>),
                JStr("Cuts taxes. Adds oversight."),
                JStr("https://openstates.org/ga/bills/HB1"), JStr("bill")),
     DetailBody(JStr("SB 2"), JStr("Health"), LAbsent, LAbsent, JNull,
                Absent, JStr("bill")),
     DetailBody(JStr("HB 3"), JStr("Schools"), LAbsent, LAbsent, Absent,
                Absent, JArr)}

CliDetailReplies ==
    {Raises("ConnectionError"), Status(401), Ok([kind |-> "invalid"])}
    \cup {Ok(b) : b \in CliBodies}

InitCLI ==
    /\ pc = "prompt"
    /\ keyword = <<>>
    /\ jurisdiction = <<>>
    /\ limit = DefaultLimit
    /\ response = UnboundResponse
    /\ detail_resp = UnboundResponse
    /\ data = UnboundData
    /\ bills_found = LList(<<>>)
    /\ i = 0
    /\ formatted_results = <<>>
    /\ exc = "none"
    /\ ret = <<>>
    /\ stdout = <<>>
    /\ requests = <<>>
    /\ search_reply = <<>>
    /\ detail_replies = <<>>
    /\ keyword_input = <<>>
    /\ jurisdiction_input = <<>>
    /\ results = <<>>

NextCLI ==
    \/ ReadKeyword(KeywordLines)
    \/ ReadJurisdiction(JurisdictionLines)
    \/ Call
    \/ SearchRequest(CliSearchReplies)
    \/ DetailFetch(CliDetailReplies)
    \/ Return
    \/ Except
    \/ PrintResults

SpecCLI == InitCLI /\ [][NextCLI]_vars

-----------------------------------------------------------------------------
(* The static catalog of version 1 (keyword_search.py).                    *)

Climate == <<"c", "l", "i", "m", "a", "t", "e">>
Education == <<"e", "d", "u", "c", "a", "t", "i", "o", "n">>

ClimateBills ==
    <<[title |-> "Clean Air Act Amendment of 2025",
       status |-> "Passed House, Awaiting Senate Vote", bill_id |-> "hr3684"],
      [title |-> "Climate Change Mitigation Bill",
       status |-> "Introduced", bill_id |-> "s1234"]>>

EducationBills ==
    <<[title |-> "Student Loan Forgiveness Act",
       status |-> "In Committee", bill_id |-> "hr5678"]>>

\* search_bill without keyword.lower().
search_bill_case_sensitive(kw) ==
    IF Contains(kw, Climate) THEN ClimateBills
    ELSE IF Contains(kw, Education) THEN EducationBills
    ELSE <<>>

\* Lines 2-21: search_bill.
search_bill(kw) ==
    IF Contains(Lower(kw), Climate) THEN ClimateBills
    ELSE IF Contains(Lower(kw), Education) THEN EducationBills
    ELSE <<>>

\* Lines 23-37: the version-1 program reads one keyword, searches, prints.
V1Main(inputs) ==
    /\ pc = "v1_prompt"
    /\ \E user_input \in inputs :
        /\ keyword' = user_input
        /\ results' = search_bill(user_input)
        /\ stdout' =
            IF search_bill(user_input) # <<>>
            THEN <<Line("Searching for bills"), Line("--- Search Results ---")>>
            ELSE <<Line("Searching for bills"), Line("There were no bills found")>>
    /\ pc' = "v1_done"
    /\ UNCHANGED <<jurisdiction, limit, response, data, bills_found, i,
                   detail_resp, formatted_results, exc, ret, requests,
                   search_reply, detail_replies, keyword_input,
                   jurisdiction_input>>

\* The pieces keywords are made of.
Fragments ==
    {Climate, <<"C", "l", "i", "m">>, <<"A", "T", "E">>, Education,
     <<"e", "D", "u">>, <<"c", "a", "t", "i", "o", "n">>, <<" ">>,
     <<"c", "h", "a", "n", "g", "e">>,
     <<"u", "n", "r", "e", "l", "a", "t", "e", "d">>}

RECURSIVE Concat(_)
Concat(parts) ==
    IF parts = <<>> THEN <<>> ELSE Head(parts) \o Concat(Tail(parts))

Keywords == {Concat(parts) : parts \in SeqUpTo(Fragments, MaxFrags)}

InitCatalog ==
    /\ pc = "v1_prompt"
    /\ keyword = <<>>
    /\ jurisdiction = <<>>
    /\ limit = DefaultLimit
    /\ response = UnboundResponse
    /\ detail_resp = UnboundResponse
    /\ data = UnboundData
    /\ bills_found = LList(<<>>)
    /\ i = 0
    /\ formatted_results = <<>>
    /\ exc = "none"
    /\ ret = <<>>
    /\ stdout = <<>>
    /\ requests = <<>>
    /\ search_reply = <<>>
    /\ detail_replies = <<>>
    /\ keyword_input = <<>>
    /\ jurisdiction_input = <<>>
    /\ results = <<>>

NextCatalog == V1Main(Keywords)

SpecCatalog == InitCatalog /\ [][NextCatalog]_vars

-----------------------------------------------------------------------------
(* What the server did, read off its replies.                              *)

Min(a, b) == IF a < b THEN a ELSE b

\* A reply that is no parsed JSON object: a transport error, an HTTP error
\* status, or a body that does not parse to an object.
ReplyFailed(r) ==
    r.exc # "none" \/ r.status_code >= 400 \/ r.body.kind # "dict"

\* A detail reply that fails or whose body does not map (subjects is null).
DetailFailed(r) == ReplyFailed(r) \/ r.body.subjects.t = "null"

SearchAnswered == search_reply # <<>>
SearchSucceeded == SearchAnswered /\ ~ReplyFailed(search_reply[1])

\* The results array of the search response (empty when there is none).
Found ==
    IF SearchSucceeded /\ search_reply[1].body.results.t = "list"
    THEN search_reply[1].body.results.items
    ELSE <<>>

\* min(N, L)
Wanted == Min(Len(Found), limit)

\* The search came to an entry without an 'id'.
MissingIdHit ==
    /\ \A k \in 1..Len(detail_replies) : ~DetailFailed(detail_replies[k])
    /\ Len(detail_replies) < Wanted
    /\ Found[Len(detail_replies) + 1].id.t = "absent"

SomeDetailFailed ==
    \E k \in 1..Len(detail_replies) : DetailFailed(detail_replies[k])

AnyFailure ==
    \/ SearchAnswered /\ ReplyFailed(search_reply[1])
    \/ SomeDetailFailed
    \/ MissingIdHit

AllSucceeded ==
    /\ SearchSucceeded
    /\ ~SomeDetailFailed
    /\ \A k \in 1..Wanted : Found[k].id.t # "absent"

AuthHint == Line("Please check if your OpenStates API key is correct and valid.")

Printed(line) == \E k \in 1..Len(stdout) : stdout[k] = line

IsAuthStatus(r) ==
    r.exc = "none" /\ (r.status_code = 401 \/ r.status_code = 403)

\* A slot passed through with its documented default.
OrDefault(slot, text) == IF slot.t = "absent" THEN JStr(text) ELSE slot

-----------------------------------------------------------------------------
(* The claims.                                                             *)

\* C1: search_bill_openstates never lets an error escape: whatever the search
\* request and the detail requests do, the call returns a list and raises
\* nothing, and the list is empty whenever a failure occurred.
C1_NoErrorEscapes ==
    /\ pc # "raised"
    /\ pc = "returned" => DOMAIN ret = 1..Len(ret)
    /\ pc = "returned" /\ AnyFailure => ret = <<>>

\* C1: a call returned the empty list after a detail body that does not map
\* raised TypeError, which only the catch-all clause catches.
C1_Witness ==
    /\ pc = "returned"
    /\ detail_replies # <<>>
    /\ ~ReplyFailed(detail_replies[Len(detail_replies)])
    /\ detail_replies[Len(detail_replies)].body.subjects.t = "null"
    /\ Printed(Line("An unknown error occurred"))
    /\ ret = <<>>

\* C2: any HTTP 401 or 403 response, to the search request or to a detail
\* request, makes the call return the empty list and print the hint to check
\* the API key.
C2_AuthHintOnEitherCall ==
    pc = "returned" /\
    (\/ SearchAnswered /\ IsAuthStatus(search_reply[1])
     \/ \E k \in 1..Len(detail_replies) : IsAuthStatus(detail_replies[k]))
    => ret = <<>> /\ Printed(AuthHint)

\* C3: the search is all-or-nothing: when the k-th detail fetch fails after
\* k-1 succeeded the call returns the empty list, and every record of a
\* non-empty returned list was built from a parsed detail response.
C3_AllOrNothing ==
    /\ pc = "returned" /\ (SomeDetailFailed \/ MissingIdHit) => ret = <<>>
    /\ pc = "returned" /\ ret # <<>> =>
        /\ Len(ret) <= Len(detail_replies)
        /\ \A k \in 1..Len(ret) :
            /\ ~DetailFailed(detail_replies[k])
            /\ ret[k].identifier =
                OrDefault(detail_replies[k].body.identifier, "N/A")

\* C3: a detail fetch failed after at least one record had been built, and
\* the call returned none of them.
C3_Witness ==
    /\ pc = "returned"
    /\ Len(formatted_results) >= 1
    /\ Len(detail_replies) = Len(formatted_results) + 1
    /\ DetailFailed(detail_replies[Len(detail_replies)])
    /\ ret = <<>>

\* C4: when every request succeeds the call issues exactly min(N, L) detail
\* requests, for the ids of the first min(N, L) results in their order, each
\* after the search request has returned.
C4_DetailRequests ==
    /\ pc = "returned" /\ AllSucceeded =>
        /\ Len(requests) = 1 + Wanted
        /\ \A k \in 1..Wanted : requests[k + 1] = DetailUrl(Found[k].id.s)
    /\ \A k \in 1..Len(requests) :
        requests[k].path = "/bills/{id}" =>
            k > 1 /\ requests[1].path = "/bills" /\ SearchSucceeded

\* C4: a fully successful call whose search returned more results than the
\* limit, with more than one detail request.
C4_Witness ==
    /\ pc = "returned"
    /\ AllSucceeded
    /\ Len(Found) > limit
    /\ limit >= 2
    /\ Len(requests) = 1 + limit

\* C5: a search response without 'results', or with an empty one, makes the
\* call return the empty list at once: no detail request, no error path.
C5_EmptySearch ==
    pc = "returned" /\ SearchSucceeded /\
    (\/ search_reply[1].body.results.t = "absent"
     \/ search_reply[1].body.results = LList(<<>>))
    => /\ ret = <<>>
       /\ requests = <<SearchUrl>>
       /\ detail_replies = <<>>
       /\ exc = "none"
       /\ stdout = <<Line("Searching for bills"), Line("No initial bills found")>>

\* C5: a call returned on a search response that has no 'results' key.
C5_Witness ==
    /\ pc = "returned"
    /\ SearchSucceeded
    /\ search_reply[1].body.results.t = "absent"
    /\ ret = <<>>

\* C6: a fully successful call returns exactly min(N, L) records, the k-th
\* built from the detail response fetched for the k-th result.
C6_OrderPreserved ==
    pc = "returned" /\ AllSucceeded =>
        /\ Len(ret) = Wanted
        /\ Len(detail_replies) = Wanted
        /\ \A k \in 1..Wanted :
            LET body == detail_replies[k].body
            IN  /\ requests[k + 1].bill_id = Found[k].id.s
                /\ ret[k].identifier = OrDefault(body.identifier, "N/A")
                /\ ret[k].title = OrDefault(body.title, "N/A")
                /\ ret[k].abstract =
                    OrDefault(body.abstract, "No abstract available.")
                /\ ret[k].openstates_url =
                    OrDefault(body.openstates_url, "No URL available.")
                /\ ret[k].classification = OrDefault(body.classification, "N/A")

\* C6: a fully successful call returned two records that differ, in the
\* order of their detail responses.
C6_Witness ==
    /\ pc = "returned"
    /\ AllSucceeded
    /\ Len(ret) = 2
    /\ ret[1].identifier = JStr("SB 2")
    /\ ret[2].identifier = JStr("HB 1")
    /\ Found[1].id # Found[2].id

\* C7 as stated: the status of a record is "No recent action found." when
\* 'actions' is missing or empty, and the description of the last element of
\* 'actions' whenever 'actions' is non-empty.
C7_StatusIsLastDescription ==
    \A k \in 1..Len(formatted_results) :
        LET actions == detail_replies[k].body.actions
            status == formatted_results[k].status
        IN  /\ (actions.t = "absent" \/ actions = LList(<<>>)) =>
                status = JStr("No recent action found.")
            /\ (actions.t = "list" /\ actions.items # <<>>) =>
                status = actions.items[Len(actions.items)].description

\* C7 as amended: the status of a record is "No recent action found." when
\* 'actions' is missing or empty; when 'actions' is non-empty it is the
\* description of the last element if that element has one, and
\* "No description." if it has none.
C7_StatusField ==
    \A k \in 1..Len(formatted_results) :
        LET actions == detail_replies[k].body.actions
            status == formatted_results[k].status
        IN  /\ (actions.t = "absent" \/ actions = LList(<<>>)) =>
                status = JStr("No recent action found.")
            /\ (actions.t = "list" /\ actions.items # <<>>) =>
                LET last == actions.items[Len(actions.items)].description
                IN  IF last.t = "absent"
                    THEN status = JStr("No description.")
                    ELSE status = last

\* C7: a record built from two actions with different descriptions has the
\* description of the last one.
C7_Witness ==
    \E k \in 1..Len(formatted_results) :
        LET actions == detail_replies[k].body.actions
        IN  /\ actions.t = "list"
            /\ Len(actions.items) = 2
            /\ actions.items[1].description = JStr("Signed")
            /\ actions.items[2].description = JStr("Introduced")
            /\ formatted_results[k].status = JStr("Introduced")

\* The names that are non-empty strings, joined by ", " from the left.
RECURSIVE JoinedNames(_)
JoinedNames(items) ==
    IF items = <<>> THEN ""
    ELSE LET front == JoinedNames(SubSeq(items, 1, Len(items) - 1))
             name == items[Len(items)].name
         IN  IF name.t = "str" /\ name.s # ""
             THEN IF front = "" THEN name.s ELSE front \o ", " \o name.s
             ELSE front

\* C8: the subjects of a record are the names of the 'subjects' entries
\* joined by ", " in list order, empty and missing names left out, and "N/A"
\* when 'subjects' is missing, empty or has only empty names.
C8_SubjectsField ==
    \A k \in 1..Len(formatted_results) :
        LET subjects == detail_replies[k].body.subjects
            field == formatted_results[k].subjects
        IN  /\ subjects.t # "null"
            /\ subjects.t = "absent" => field = JStr("N/A")
            /\ subjects.t = "list" =>
                field = IF JoinedNames(subjects.items) = ""
                        THEN JStr("N/A")
                        ELSE JStr(JoinedNames(subjects.items))

\* C8: a record built from three subjects, the middle one with an empty name,
\* has the two other names joined in their order.
C8_Witness ==
    \E k \in 1..Len(formatted_results) :
        /\ detail_replies[k].body.subjects =
            LList(<<Subject(JStr("Tax")), Subject(JStr("")),
                    Subject(JStr("Health"))>>)
        /\ formatted_results[k].subjects = JStr("Tax, Health")

\* word occurs in kw, letter case ignored.
HasWord(kw, word) ==
    \E k \in 1..Len(kw) :
        /\ k + Len(word) - 1 <= Len(kw)
        /\ \A j \in 1..Len(word) :
            kw[k + j - 1] = word[j] \/ kw[k + j - 1] = UpperChar(word[j])

\* C9: search_bill returns the two climate records when the keyword holds
\* "climate" in any letter case (also beside "education"), the one education
\* record when it holds "education" and not "climate", and the empty list
\* otherwise: the two climate records for "climate change", none for
\* "unrelated".
C9_StaticCatalog ==
    pc = "v1_done" =>
        /\ HasWord(keyword, Climate) =>
            results = ClimateBills /\ Len(results) = 2
        /\ HasWord(keyword, Education) /\ ~HasWord(keyword, Climate) =>
            results = EducationBills /\ Len(results) = 1
        /\ ~HasWord(keyword, Education) /\ ~HasWord(keyword, Climate) =>
            results = <<>>
        /\ keyword = Climate \o <<" ">> \o <<"c", "h", "a", "n", "g", "e">> =>
            results = ClimateBills
        /\ keyword = <<"u", "n", "r", "e", "l", "a", "t", "e", "d">> =>
            results = <<>>

\* C9: a keyword holding both words, not all in lower case, got the two
\* climate records.
C9_Witness ==
    /\ pc = "v1_done"
    /\ HasWord(keyword, Climate)
    /\ HasWord(keyword, Education)
    /\ keyword # Lower(keyword)
    /\ results = ClimateBills

\* C10: the read loop never crashes: after every keyword other than 'exit',
\* whatever the search returned, the loop comes back to the keyword prompt.
C10_LoopAlwaysContinues ==
    pc # "crashed" /\ pc # "raised"

\* C10, the parts of it that hold: the loop ends only on 'exit' in any letter
\* case, an empty keyword leads back to the prompt without a search, and an
\* empty list (a true empty result or any failure) leads back to the prompt.
ReadLoopEndsOnlyOnExit ==
    [][pc' = "exited" /\ pc # "exited" =>
        pc = "prompt" /\ Lower(keyword_input') = Exit]_vars

ReadLoopEmptyKeywordReprompts ==
    [][pc = "prompt" /\ keyword_input' = <<>> =>
        pc' = "prompt" /\ requests' = requests]_vars

ReadLoopContinuesOnEmptyList ==
    [][pc = "returned" /\ ret = <<>> => pc' = "prompt"]_vars

====
